---- MODULE Spec2Model ----
(***************************************************************************)
(* Session-authenticated request pipeline of the qBittorrent Go client.    *)
(*                                                                         *)
(* The repository carries two revisions of the client:                     *)
(*   "sid"  src/client.go: the SID cookie is kept in Client.sid under      *)
(*          Client.mu (sync.RWMutex) and attached by makeRequest;          *)
(*   "jar"  src/client_addparams_test.go:345-1358: the *Ctx methods, the   *)
(*          SID cookie lives in the http.Client cookie jar.                *)
(* Both share doRequest / AuthLogin / doGet / doPost.  Every caller is a   *)
(* goroutine with its own call stack of frames; AuthLogin and doRequest    *)
(* call each other, so the stack is explicit.                              *)
(***************************************************************************)
EXTENDS Integers, Sequences, FiniteSets, TLC

\* ---- bounds of the model ------------------------------------------------
MaxNest == 2
MaxCalls == 2
\* torrents and URLs of one TorrentsAddParams; characters of a tags string;
\* bits of an int64
MaxItems == 2
MaxTagLen == 3
TimeBits == 6

\* the goroutines that may use the one Client
Procs == {"g1", "g2"}

\* ---- program constants --------------------------------------------------
StatusOK == 200
StatusForbidden == 403

\* ---- the remote side: what a server may answer ---------------------------
Statuses == {200, 403, 500}
Tokens == {"t1", "t2"}
ApiBodies == {"[]"}

LoginPath == "/api/v2/auth/login"

NoResp == [status |-> 0, body |-> "", readErr |-> FALSE, sid |-> ""]
Pending == [status |-> -1, body |-> "", readErr |-> FALSE, sid |-> ""]
Aborted == [status |-> -2, body |-> "", readErr |-> FALSE, sid |-> ""]

\* Responses the server may give to a request for path
\* (a login answers 200 "Ok." with or without a Set-Cookie: SID, or 200
\* "Fails." for wrong credentials, or an error status)
FullMenu(path) ==
    IF path = LoginPath
    THEN [status : {StatusOK}, body : {"Ok."}, readErr : {FALSE}, sid : {""} \cup Tokens]
         \cup [status : {StatusOK}, body : {"Fails."}, readErr : {FALSE}, sid : {""}]
         \cup [status : Statuses \ {StatusOK}, body : {"denied"}, readErr : {FALSE}, sid : {""}]
    ELSE [status : {StatusOK}, body : ApiBodies, readErr : BOOLEAN, sid : {""}]
         \cup [status : Statuses \ {StatusOK}, body : {"denied"}, readErr : BOOLEAN, sid : {""}]

\* A server whose sessions expire: 403 until a login, which hands out a
\* fresh SID or fails
BriefMenu(path) ==
    IF path = LoginPath
    THEN [status : {StatusOK}, body : {"Ok."}, readErr : {FALSE}, sid : Tokens]
         \cup [status : {500}, body : {"denied"}, readErr : {FALSE}, sid : {""}]
    ELSE [status : {StatusOK}, body : ApiBodies, readErr : {FALSE}, sid : {""}]
         \cup [status : {StatusForbidden}, body : {"denied"}, readErr : {FALSE}, sid : {""}]

\* A server whose 200 answers carry no body, a JSON array or a JSON object,
\* and which also answers 204 No Content
DecodeMenu(path) ==
    IF path = LoginPath
    THEN [status : {StatusOK}, body : {"Ok."}, readErr : {FALSE}, sid : {"t1"}]
         \cup [status : {500}, body : {"denied"}, readErr : {FALSE}, sid : {""}]
    ELSE [status : {StatusOK}, body : {"", "[]", "{}"}, readErr : {FALSE}, sid : {""}]
         \cup [status : {204}, body : {""}, readErr : {FALSE}, sid : {""}]
         \cup [status : {StatusForbidden, 500}, body : {"denied"}, readErr : {FALSE},
               sid : {""}]

\* ---- errors: the chain of fmt.Errorf prefixes, and the status and body
\* ---- that the message quotes
NoErr == [msg |-> <<>>, status |-> 0, body |-> ""]
Err(m) == [msg |-> <<m>>, status |-> 0, body |-> ""]
StatusErr_bare(m, resp) == [msg |-> <<m>>, status |-> 0, body |-> ""]
StatusErr(m, resp) == [msg |-> <<m>>, status |-> resp.status, body |-> resp.body]
Wrap(m, e) == [e EXCEPT !.msg = <<m>> \o @]

Ret(resp, err) == [resp |-> resp, err |-> err]
NoRet == Ret(NoResp, NoErr)

\* ---- io.Reader over a byte sequence -------------------------------------
NilReader == [nil |-> TRUE, data |-> <<>>, pos |-> 0]
NewReader(bytes) == [nil |-> FALSE, data |-> bytes, pos |-> 0]
\* io.ReadAll: everything from the current position; the reader is left
\* at its end
ReadAll(r) == SubSeq(r.data, r.pos + 1, Len(r.data))
Drained(r) == [r EXCEPT !.pos = Len(r.data)]

NilBuffer == [nil |-> TRUE, bytes |-> <<>>]

\* c.baseURL: url.Parse may fail; Path is the path part
BaseURLs == {[ok |-> TRUE, path |-> <<"qb/">>], [ok |-> FALSE, path |-> <<>>]}
\* strings.TrimSuffix(apiURL.Path, "/") + endpoint
JoinPath(base, endpoint) ==
    (IF base.path = <<"qb/">> THEN <<"qb">> ELSE base.path) \o <<endpoint>>

\* ---- Go strings and byte slices: sequences of characters ------------------
Digits == <<"0", "1", "2", "3", "4", "5", "6", "7", "8", "9">>
IsDigit(c) == \E d \in 1..Len(Digits) : Digits[d] = c

\* strconv.Itoa
RECURSIVE Itoa(_)
Itoa(n) ==
    IF n < 0 THEN <<"-">> \o Itoa(-n)
    ELSE IF n < 10 THEN <<Digits[n + 1]>>
    ELSE Itoa(n \div 10) \o <<Digits[(n % 10) + 1]>>

\* a float64 that is a whole number of eighths is held as that number: 20
\* is 2.5, 1 is 0.125
RatioUnit == 8
\* the value in hundredths, rounded half to even as strconv does for an
\* exactly representable float64
Hundredths(r) ==
    LET q == (r * 100) \div RatioUnit
        m == (r * 100) % RatioUnit
    IN IF 2 * m > RatioUnit \/ (2 * m = RatioUnit /\ q % 2 = 1) THEN q + 1 ELSE q
\* fmt.Sprintf with "%.1f" and with "%.2f"
FormatFloat1(r) ==
    LET a == IF r < 0 THEN -r ELSE r
        q == (a * 10) \div RatioUnit
        m == (a * 10) % RatioUnit
        t == IF 2 * m > RatioUnit \/ (2 * m = RatioUnit /\ q % 2 = 1) THEN q + 1 ELSE q
    IN (IF r < 0 THEN <<"-">> ELSE <<>>)
       \o Itoa(t \div 10) \o <<".", Digits[(t % 10) + 1]>>
FormatFloat2(r) ==
    LET h == Hundredths(IF r < 0 THEN -r ELSE r)
    IN (IF r < 0 THEN <<"-">> ELSE <<>>)
       \o Itoa(h \div 100)
       \o <<".", Digits[((h \div 10) % 10) + 1], Digits[(h % 10) + 1]>>
\* fmt.Sprintf("%t", b)
FormatBool(b) == IF b THEN <<"t", "r", "u", "e">> ELSE <<"f", "a", "l", "s", "e">>

\* ---- TorrentsAddParams and the multipart form -----------------------------
\* a *bool
NilBool == [nil |-> TRUE, v |-> FALSE]
PtrTo(b) == [nil |-> FALSE, v |-> b]

\* the zero value of the struct
ZeroParams ==
    [Torrents |-> <<>>, URLs |-> <<>>, SavePath |-> <<>>, Cookie |-> <<>>,
     Category |-> <<>>, Tags |-> <<>>, SkipCheck |-> FALSE, Paused |-> FALSE,
     RootFolder |-> NilBool, Rename |-> <<>>, UpLimit |-> 0, DlLimit |-> 0,
     RatioLimit |-> 0, SeedingTime |-> 0, AutoTMM |-> FALSE,
     Sequential |-> FALSE, FirstLast |-> FALSE]

\* one part of a multipart body: writer.CreateFormFile / writer.WriteField
FilePart(name, filename, data) == [name |-> name, filename |-> filename, data |-> data]
Field(name, value) == [name |-> name, filename |-> <<>>, data |-> value]
Opt(cond, part) == IF cond THEN <<part>> ELSE <<>>

\* fmt.Sprintf("torrent%d.torrent", i)
TorrentFilename(i) ==
    <<"t", "o", "r", "r", "e", "n", "t">> \o Itoa(i)
        \o <<".", "t", "o", "r", "r", "e", "n", "t">>

\* for i, torrentData := range params.Torrents
FileParts_fromOne(ts) ==
    [i \in 1..Len(ts) |-> FilePart("torrents", TorrentFilename(i), ts[i])]
FileParts(ts) ==
    [i \in 1..Len(ts) |-> FilePart("torrents", TorrentFilename(i - 1), ts[i])]
\* for _, url := range params.URLs
UrlFields(us) == [i \in 1..Len(us) |-> Field("urls", us[i])]

\* the condition under which a limit is written
LimitSet(n) == n > 0

\* the parts buildTorrentAddForm writes, in order
BuildTorrentAddForm(params) ==
    FileParts(params.Torrents)
    \o UrlFields(params.URLs)
    \o Opt(params.SavePath # <<>>, Field("savepath", params.SavePath))
    \o Opt(params.Cookie # <<>>, Field("cookie", params.Cookie))
    \o Opt(params.Category # <<>>, Field("category", params.Category))
    \o Opt(params.Tags # <<>>, Field("tags", params.Tags))
    \o Opt(params.SkipCheck, Field("skip_checking", FormatBool(TRUE)))
    \o Opt(params.Paused, Field("paused", FormatBool(TRUE)))
    \o Opt(~params.RootFolder.nil,
           Field("root_folder", FormatBool(params.RootFolder.v)))
    \o Opt(params.Rename # <<>>, Field("rename", params.Rename))
    \o Opt(LimitSet(params.UpLimit), Field("upLimit", Itoa(params.UpLimit)))
    \o Opt(LimitSet(params.DlLimit), Field("dlLimit", Itoa(params.DlLimit)))
    \o Opt(LimitSet(params.RatioLimit),
           Field("ratioLimit", FormatFloat2(params.RatioLimit)))
    \o Opt(LimitSet(params.SeedingTime),
           Field("seedingTimeLimit", Itoa(params.SeedingTime)))
    \o Opt(params.AutoTMM, Field("autoTMM", FormatBool(TRUE)))
    \o Opt(params.Sequential, Field("sequentialDownload", FormatBool(TRUE)))
    \o Opt(params.FirstLast, Field("firstLastPiecePrio", FormatBool(TRUE)))

\* ---- the query of TorrentsInfo ----------------------------------------------
ZeroInfoParams ==
    [Filter |-> <<>>, Category |-> <<>>, Tag |-> <<>>, Sort |-> <<>>,
     Reverse |-> FALSE, Limit |-> 0, Offset |-> 0, Hashes |-> <<>>]

\* strings.Join
RECURSIVE StringsJoin(_, _)
StringsJoin(items, sep) ==
    IF items = <<>> THEN <<>>
    ELSE IF Len(items) = 1 THEN items[1]
    ELSE items[1] \o <<sep>> \o StringsJoin(Tail(items), sep)

\* if params.Offset != 0
OffsetSet_positive(n) == n > 0
OffsetSet(n) == n # 0

\* the url.Values buildTorrentsInfoQuery fills, in the order Encode() writes
\* them: sorted by key
BuildTorrentsInfoQuery(params) ==
    Opt(params.Category # <<>>, Field("category", params.Category))
    \o Opt(params.Filter # <<>>, Field("filter", params.Filter))
    \o Opt(Len(params.Hashes) > 0, Field("hashes", StringsJoin(params.Hashes, "|")))
    \o Opt(params.Limit > 0, Field("limit", Itoa(params.Limit)))
    \o Opt(OffsetSet(params.Offset), Field("offset", Itoa(params.Offset)))
    \o Opt(params.Reverse, Field("reverse", <<"t", "r", "u", "e">>))
    \o Opt(params.Sort # <<>>, Field("sort", params.Sort))
    \o Opt(params.Tag # <<>>, Field("tag", params.Tag))

\* TorrentsInfo(params ...*TorrentsInfoParams): the query stays nil unless a
\* first argument is given and is not nil
TorrentsInfoQuery(args) ==
    IF args.n > 0 /\ ~args.nil THEN BuildTorrentsInfoQuery(args.v) ELSE <<>>

\* ---- decoding -------------------------------------------------------------
\* strings.Index and strings.Split for a one-character separator
IndexOf(s, c) ==
    IF \E i \in 1..Len(s) : s[i] = c
    THEN CHOOSE i \in 1..Len(s) : s[i] = c /\ \A j \in 1..(i - 1) : s[j] # c
    ELSE 0
RECURSIVE Split(_, _)
Split(s, c) ==
    IF IndexOf(s, c) = 0 THEN <<s>>
    ELSE <<SubSeq(s, 1, IndexOf(s, c) - 1)>>
         \o Split(SubSeq(s, IndexOf(s, c) + 1, Len(s)), c)

\* a []string: nil, or its items
NilSlice == [nil |-> TRUE, items |-> <<>>]
Slice(items) == [nil |-> FALSE, items |-> items]

\* if aux.RawTags == "" { t.Tags = []string{} } else { strings.Split }
TagList_noGuard(raw) == Slice(Split(raw, ","))
TagList(raw) == IF raw = <<>> THEN Slice(<<>>) ELSE Slice(Split(raw, ","))

\* TorrentInfo.UnmarshalJSON: data is a JSON object (valid or not) whose
\* "tags" member may be absent
UnmarshalTorrentInfo(data) ==
    IF ~data.valid THEN [err |-> TRUE, Tags |-> NilSlice]
    ELSE [err |-> FALSE,
          Tags |-> TagList(IF data.hasTags THEN data.tags ELSE <<>>)]

\* int64, TimeBits wide
MinInt == -(2 ^ (TimeBits - 1))
MaxInt == 2 ^ (TimeBits - 1) - 1
WrapInt(n) == ((n - MinInt) % (2 ^ TimeBits)) + MinInt

\* a time.Time: seconds since January 1 of year 1 and the location;
\* UnixToInternal is the seconds from then to 1970, to the scale of TimeBits
UnixToInternal == 20
ZeroTime == [ext |-> 0, loc |-> "UTC"]
\* time.Unix(sec, 0) and t.Unix()
TimeUnix(sec) == [ext |-> WrapInt(sec + UnixToInternal), loc |-> "Local"]
UnixOf(t) == WrapInt(t.ext - UnixToInternal)

unixTimeOrZero_nonPositive(value) == IF value <= 0 THEN ZeroTime ELSE TimeUnix(value)
unixTimeOrZero(value) == IF value = -1 THEN ZeroTime ELSE TimeUnix(value)

\* TorrentsProperties.UnmarshalJSON, its four timestamps
UnmarshalTorrentsProperties(data) ==
    IF ~data.valid
    THEN [err |-> TRUE, AdditionDate |-> ZeroTime, CompletionDate |-> ZeroTime,
          CreationDate |-> ZeroTime, LastSeen |-> ZeroTime]
    ELSE [err |-> FALSE,
          AdditionDate |-> unixTimeOrZero(data.addition_date),
          CompletionDate |-> unixTimeOrZero(data.completion_date),
          CreationDate |-> unixTimeOrZero(data.creation_date),
          LastSeen |-> unixTimeOrZero(data.last_seen)]

\* ---- the values the functions are applied to ------------------------------
SeqsUpTo(S, n) == UNION {[1..k -> S] : k \in 0..n}

Strs == {<<>>, <<"x">>}
Limits == {-1, 0, 5, 1440}
Ratios == {-RatioUnit, 0, 1, 3, 20}
RootFolders == {NilBool, PtrTo(TRUE), PtrTo(FALSE)}
Payloads == {<<"d", "1", "e">>, <<"d", "2", "e">>}
Urls == {<<"m", "1">>, <<"m", "2">>}

\* every scalar field set, as in TestTorrentsAddParams
FullParams ==
    [Torrents |-> <<>>, URLs |-> <<>>, SavePath |-> <<"x">>, Cookie |-> <<"x">>,
     Category |-> <<"x">>, Tags |-> <<"x">>, SkipCheck |-> TRUE, Paused |-> TRUE,
     RootFolder |-> PtrTo(FALSE), Rename |-> <<"x">>, UpLimit |-> 1440,
     DlLimit |-> 5, RatioLimit |-> 20, SeedingTime |-> 1440, AutoTMM |-> TRUE,
     Sequential |-> TRUE, FirstLast |-> TRUE]

\* the TorrentsAddParams values tried: every combination of the numeric
\* fields and RootFolder, every combination of the string and bool fields,
\* and every pair of lists with the scalars all unset or all set
AddInputs ==
    {[ZeroParams EXCEPT !.UpLimit = a, !.DlLimit = b, !.RatioLimit = c,
                        !.SeedingTime = d, !.RootFolder = r] :
        a \in Limits, b \in Limits, c \in Ratios, d \in Limits, r \in RootFolders}
    \cup
    {[ZeroParams EXCEPT !.SavePath = s[1], !.Cookie = s[2], !.Category = s[3],
                        !.Tags = s[4], !.Rename = s[5], !.SkipCheck = b[1],
                        !.Paused = b[2], !.AutoTMM = b[3], !.Sequential = b[4],
                        !.FirstLast = b[5]] :
        s \in [1..5 -> Strs], b \in [1..5 -> BOOLEAN]}
    \cup
    {[z EXCEPT !.Torrents = t, !.URLs = u] :
        z \in {ZeroParams, FullParams},
        t \in SeqsUpTo(Payloads, MaxItems), u \in SeqsUpTo(Urls, MaxItems)}

\* the JSON objects decoded into a TorrentInfo
\* the arguments of TorrentsInfo: none, a nil pointer, or params whose text
\* fields and flag vary, or whose numbers and hashes vary
InfoLimits == {-1, 0, 5}
HashValues == {<<>>, <<"h", "1">>, <<"h", "2">>}
InfoParamsInputs ==
    {[ZeroInfoParams EXCEPT !.Filter = f, !.Category = c, !.Tag = t, !.Sort = o,
                            !.Reverse = r] :
        f \in Strs, c \in Strs, t \in Strs, o \in Strs, r \in BOOLEAN}
    \cup {[ZeroInfoParams EXCEPT !.Limit = l, !.Offset = o, !.Hashes = h] :
             l \in InfoLimits, o \in InfoLimits, h \in SeqsUpTo(HashValues, MaxItems)}
InfoInputs ==
    {[n |-> 0, nil |-> TRUE, v |-> ZeroInfoParams],
     [n |-> 1, nil |-> TRUE, v |-> ZeroInfoParams]}
    \cup {[n |-> 1, nil |-> FALSE, v |-> x] : x \in InfoParamsInputs}

TagStrings == SeqsUpTo({"a", "b", ","}, MaxTagLen)
TorrentInfoInputs ==
    [valid : {TRUE}, hasTags : {TRUE}, tags : TagStrings]
    \cup [valid : BOOLEAN, hasTags : {FALSE}, tags : {<<>>}]

\* the JSON objects decoded into a TorrentsProperties
WireTimes == {-1, 0, 7, MinInt, MaxInt}
PropertiesInputs ==
    [valid : {TRUE}, addition_date : WireTimes, completion_date : WireTimes,
     creation_date : WireTimes, last_seen : WireTimes]
    \cup [valid : {FALSE}, addition_date : {0}, completion_date : {0},
          creation_date : {0}, last_seen : {0}]

VARIABLES
    callers,    \* the goroutines that use the client
    menu,       \* the answers the server draws from: "full", "brief" or
                \* "decode"
    mode,       \* which revision of the client runs: "sid" or "jar"
    baseURL,    \* Client.baseURL
    username,   \* Client.username
    password,   \* Client.password
    httpClient, \* the httpClient argument of NewClient
    qbClient,   \* what NewClient has returned, and the Jar of Client.client
    sid,        \* Client.sid, a Go string: two words (ptr, len)
    mu,         \* Client.mu: w = the writer holding it ("": none), r = readers
    jar,        \* the SID cookie in Client.client.Jar ("" when absent)
    stack,      \* per caller: the frames of its call, innermost last
    result,     \* per caller: what the doGet, doPost or AuthLogin of its
                \* finished call returned
    answer,     \* per caller: what the endpoint method returned
    op,         \* per caller: the call it makes
    ncalls,     \* per caller: calls started
    ctx,        \* per caller: the context of its call
    log,        \* per caller: the HTTP exchanges of the doRequest its call makes
    logins,     \* per caller: login requests sent during its current call
                \* (those of kept frames)
    stored,     \* tokens written to Client.sid / the jar by completed logins
    lastSid,    \* the SID cookie of the latest completed successful login that
                \* set one ("" before the first)
    open,       \* per caller: response bodies obtained during its current call
                \* and not closed
    gotSid,     \* per caller: a login answered 200 with an SID cookie during
                \* its current call
    cancelSeen, \* per caller: the ctx was cancelled before or during a
                \* client.Do of its current call
    arg,        \* the argument a function is applied to, when one is
    out,        \* what the function returned
    reauth      \* per caller: how the c.AuthLogin() of the doRequest its call
                \* makes ended: "none", "ok" or "failed"

\* ---- endpoint calls the callers make -------------------------------------
\* infohash is the argument of TorrentsDelete.
\* fn is the helper the method calls; target is what the method decodes the
\* body into ("none": it returns only an error); emptyCheck: the method
\* tests len(respData) == 0 itself; errPrefix: how it wraps the helper's
\* error ("": not at all)
TorrentsInfoCall ==
    [fn |-> "doGet", method |-> "GET", endpoint |-> "/api/v2/torrents/info",
     query |-> <<"filter=all">>, contentType |-> "", body |-> NilReader,
     api |-> "TorrentsInfo", target |-> "slice", emptyCheck |-> FALSE,
     errPrefix |-> "", params |-> ZeroParams,
     infohash |-> <<>>]
\* url.Values.Encode() writes the fields sorted by key (the values are shown
\* unescaped)
\* data.Set("hashes", hash); data.Set("deleteFiles", "true")
DeleteForm_keepFiles(hash) == <<Field("hashes", hash)>>
DeleteForm(hash) ==
    <<Field("deleteFiles", <<"t", "r", "u", "e">>), Field("hashes", hash)>>
\* data.Set("username", c.username); data.Set("password", c.password)
LoginForm_whenSet(u, pw) ==
    Opt(pw # <<>>, Field("password", pw)) \o Opt(u # <<>>, Field("username", u))
LoginForm(u, pw) == <<Field("password", pw), Field("username", u)>>

TorrentsDelete(hash) ==
    [fn |-> "doPost", method |-> "POST", endpoint |-> "/api/v2/torrents/delete",
     query |-> <<>>, contentType |-> "application/x-www-form-urlencoded",
     body |-> NewReader(DeleteForm(hash)),
     api |-> "TorrentsDelete", target |-> "none", emptyCheck |-> FALSE,
     errPrefix |-> "TorrentsDelete error", params |-> ZeroParams,
     infohash |-> hash]
TorrentsDeleteCall == TorrentsDelete(<<"h", "1">>)
\* c.AuthLogin(): the credentials are those of the Client
AuthLoginCall ==
    [fn |-> "AuthLogin", method |-> "POST", endpoint |-> LoginPath,
     query |-> <<>>, contentType |-> "application/x-www-form-urlencoded",
     body |-> NewReader(LoginForm(username, password)),
     api |-> "AuthLogin", target |-> "none", emptyCheck |-> FALSE,
     errPrefix |-> "", params |-> ZeroParams,
     infohash |-> <<>>]
\* the AuthLogin that NewClient calls: its error is wrapped once more
NewClientCall ==
    [AuthLoginCall EXCEPT !.api = "NewClient", !.errPrefix = "AuthLogin error"]
Calls == {TorrentsInfoCall, TorrentsDeleteCall, AuthLoginCall}

\* a method that GETs endpoint and decodes the body
GetCall(api, endpoint, query, target, emptyCheck, errPrefix) ==
    [fn |-> "doGet", method |-> "GET", endpoint |-> endpoint, query |-> query,
     contentType |-> "", body |-> NilReader, api |-> api, target |-> target,
     emptyCheck |-> emptyCheck, errPrefix |-> errPrefix, params |-> ZeroParams,
     infohash |-> <<>>]
StructuredCalls ==
    {TorrentsInfoCall,
     GetCall("TorrentsProperties", "/api/v2/torrents/properties", <<"hash=h1">>,
             "struct", TRUE, "TorrentsProperties error"),
     GetCall("TorrentsTrackers", "/api/v2/torrents/trackers", <<"hash=h1">>,
             "slice", FALSE, "TorrentsTrackers error"),
     GetCall("TorrentsGetAllTags", "/api/v2/torrents/tags", <<>>,
             "slice", FALSE, "GetAllTags error"),
     GetCall("SyncMainData", "/api/v2/sync/maindata", <<"rid=0">>,
             "struct", FALSE, ""),
     GetCall("SyncTorrentPeers", "/api/v2/sync/torrentPeers", <<"hash=h1", "rid=0">>,
             "struct", FALSE, "")}

\* TorrentsAddParams(params): the form is the body of a POST
TorrentsAddParamsCall(params) ==
    [fn |-> "doPost", method |-> "POST", endpoint |-> "/api/v2/torrents/add",
     query |-> <<>>, contentType |-> "multipart/form-data",
     body |-> NewReader(BuildTorrentAddForm(params)),
     api |-> "TorrentsAddParams", target |-> "none", emptyCheck |-> FALSE,
     errPrefix |-> "TorrentsAdd error", params |-> params,
     infohash |-> <<>>]
\* the i-th torrent payload and the i-th URL a caller passes
Payload(i) == <<"d">> \o Itoa(i) \o <<"e">>
Magnet(i) == <<"m">> \o Itoa(i)
AddCalls ==
    {TorrentsAddParamsCall([ZeroParams EXCEPT
                               !.Torrents = [i \in 1..k |-> Payload(i)],
                               !.URLs = [i \in 1..m |-> Magnet(i)]]) :
        k \in 0..MaxItems, m \in 0..MaxItems}
\* the hash arguments of TorrentsDelete: none, one hash, two joined by "|"
HashArgs == {<<>>, <<"h", "1">>, <<"h", "1", "|", "h", "2">>}
DeleteCalls == {TorrentsDelete(h) : h \in HashArgs}
EndpointCalls == StructuredCalls \cup AddCalls \cup DeleteCalls

\* ---- what an endpoint method makes of the helper's return ------------------
\* json.Unmarshal(body, &v) succeeds: v is a slice and the body a JSON array,
\* or v is a struct and the body a JSON object
Unmarshals_lenient(target, body) ==
    body = "" \/ (target = "slice" /\ body = "[]") \/ (target = "struct" /\ body = "{}")
Unmarshals(target, body) ==
    (target = "slice" /\ body = "[]") \/ (target = "struct" /\ body = "{}")

NoAnswer == [value |-> "nil", err |-> NoErr]
EndpointReturn(c, ret) ==
    IF ret.err # NoErr
    THEN [value |-> "nil",
          err |-> IF c.errPrefix = "" THEN ret.err ELSE Wrap(c.errPrefix, ret.err)]
    ELSE IF c.target = "none" THEN NoAnswer
    ELSE IF c.emptyCheck /\ ret.resp.body = ""
    THEN [value |-> "nil", err |-> Err("TorrentsProperties error: empty response")]
    ELSE IF ~Unmarshals(c.target, ret.resp.body)
    THEN [value |-> "nil", err |-> Err("failed to decode response")]
    ELSE [value |-> c.target, err |-> NoErr]

\* what is fixed when the client and its environment are set up
env == <<callers, menu, mode, baseURL, username, password, httpClient>>
config == <<env, arg, out>>

vars == <<callers, menu, mode, baseURL, username, password, httpClient, qbClient,
          sid, mu, jar, stack, result, answer, op, ncalls, ctx, log, logins, stored,
          lastSid, open, gotSid, cancelSeen, arg, out, reauth>>

NoArg == [fn |-> "none"]
NoOut == [done |-> FALSE]

NoOp == [fn |-> "none", method |-> "", endpoint |-> "", query |-> <<>>,
         contentType |-> "", body |-> NilReader, api |-> "none",
         target |-> "none", emptyCheck |-> FALSE, errPrefix |-> "",
         params |-> ZeroParams,
     infohash |-> <<>>]
EmptyTok == [ptr |-> "", len |-> ""]
Str(t) == [ptr |-> t, len |-> t]

\* a login refused with a Set-Cookie: SID all the same.  What becomes of
\* such a cookie in the "jar" revision is up to net/http/cookiejar.
RejectedWithCookie(path) ==
    IF path = LoginPath
    THEN {[status |-> 500, body |-> "denied", readErr |-> FALSE, sid |-> "t2"]}
    ELSE {}

ServerResponses(path) ==
    IF menu = "full"
    THEN FullMenu(path) \cup (IF mode = "sid" THEN RejectedWithCookie(path) ELSE {})
    ELSE IF menu = "brief" THEN BriefMenu(path)
    ELSE DecodeMenu(path)

\* ---- NewClient ------------------------------------------------------------
\* the httpClient ...*http.Client argument: how many were passed, whether
\* the first is a nil pointer, and its Jar ("nil", or the caller's jar)
HttpClients ==
    {[args |-> 0, nil |-> TRUE, Jar |-> "nil"],
     [args |-> 1, nil |-> TRUE, Jar |-> "nil"],
     [args |-> 1, nil |-> FALSE, Jar |-> "nil"],
     [args |-> 1, nil |-> FALSE, Jar |-> "callers"]}
\* if len(httpClient) > 0 && httpClient[0] != nil
Supplied(hc) == hc.args > 0 /\ ~hc.nil
\* if client.Jar == nil { client.Jar = jar }
EnsureJar_asGiven(j) == j
EnsureJar(j) == IF j = "nil" THEN "created" ELSE j
\* the Jar of the http.Client the new Client uses: http.DefaultClient (no
\* jar) or the one supplied in the "sid" revision; in the "jar" revision a
\* client made with a new jar, or the one supplied, given a jar if it has none
ClientJar(hc) ==
    IF mode = "sid" THEN (IF Supplied(hc) THEN hc.Jar ELSE "nil")
    ELSE IF Supplied(hc) THEN EnsureJar(hc.Jar) ELSE EnsureJar("created")

\* NewClient has not been called; a Client it returned
NoClient == [state |-> "none", Jar |-> "nil"]
ClientOf(hc) == [state |-> "ok", Jar |-> ClientJar(hc)]
\* the credentials a caller passes
Usernames == {<<>>, <<"u">>}
Passwords == {<<>>, <<"p">>}

InitClient ==
    /\ sid = EmptyTok
    /\ mu = [w |-> "", r |-> {}]
    /\ jar = ""
    /\ stack = [p \in Procs |-> <<>>]
    /\ result = [p \in Procs |-> NoRet]
    /\ answer = [p \in Procs |-> NoAnswer]
    /\ op = [p \in Procs |-> NoOp]
    /\ ncalls = [p \in Procs |-> 0]
    /\ ctx = [p \in Procs |-> "background"]
    /\ log = [p \in Procs |-> <<>>]
    /\ logins = [p \in Procs |-> 0]
    /\ stored = {}
    /\ lastSid = ""
    /\ open = [p \in Procs |-> 0]
    /\ gotSid = [p \in Procs |-> FALSE]
    /\ cancelSeen = [p \in Procs |-> FALSE]
    /\ reauth = [p \in Procs |-> "none"]

\* one goroutine, either revision, any server
InitSingle ==
    /\ callers = {"g1"}
    /\ menu = "full"
    /\ mode \in {"sid", "jar"}
    /\ baseURL \in BaseURLs
    /\ InitClient
    /\ username = <<"u">>
    /\ password = <<"p">>
    /\ httpClient \in {hc \in HttpClients : hc.args = 0}
    /\ qbClient = ClientOf(httpClient)
    /\ arg = NoArg
    /\ out = NoOut

\* two goroutines share the client of src/client.go
InitPair ==
    /\ callers = Procs
    /\ menu = "brief"
    /\ mode = "sid"
    /\ baseURL \in {b \in BaseURLs : b.ok}
    /\ InitClient
    /\ username = <<"u">>
    /\ password = <<"p">>
    /\ httpClient \in {hc \in HttpClients : hc.args = 0}
    /\ qbClient = ClientOf(httpClient)
    /\ arg = NoArg
    /\ out = NoOut

\* one goroutine calls the methods that decode a body or build a form
InitEndpoints ==
    /\ callers = {"g1"}
    /\ menu = "decode"
    /\ mode \in {"sid", "jar"}
    /\ baseURL \in {b \in BaseURLs : b.ok}
    /\ InitClient
    /\ username = <<"u">>
    /\ password = <<"p">>
    /\ httpClient \in {hc \in HttpClients : hc.args = 0}
    /\ qbClient = ClientOf(httpClient)
    /\ arg = NoArg
    /\ out = NoOut

\* NewClient is still to be called, by one goroutine
InitConstruct ==
    /\ callers = {"g1"}
    /\ menu = "full"
    /\ mode \in {"sid", "jar"}
    /\ baseURL \in BaseURLs
    /\ InitClient
    /\ username \in Usernames
    /\ password \in Passwords
    /\ httpClient \in HttpClients
    /\ qbClient = NoClient
    /\ arg = NoArg
    /\ out = NoOut

Init == InitSingle \/ InitPair \/ InitEndpoints \/ InitConstruct

\* an outgoing *http.Request
NoReq == [method |-> "", url |-> <<>>, query |-> <<>>, contentType |-> "",
          body |-> <<>>, cookie |-> EmptyTok]

\* ---- frames ---------------------------------------------------------------
Frame(fn, pc, call) ==
    [fn |-> fn, pc |-> pc, call |-> call, body |-> call.body,
     bodyBuffer |-> NilBuffer, attempt |-> 1, cookie |-> EmptyTok,
     ret |-> NoRet, lost |-> FALSE]

Depth(p) == Len(stack[p])
Top(p) == stack[p][Depth(p)]
Running(p) == stack[p] # <<>>
At(p, fn, pc) == Running(p) /\ Top(p).fn = fn /\ Top(p).pc = pc
\* AuthLogin invocations on the stack of p.  The stack keeps MaxNest of
\* them; an invocation nested deeper takes the place of the innermost
\* doRequest and is marked lost: the frames it would return to are not
\* kept, so of a lost frame the model follows only the answers that nest
\* deeper still.
Nest(p) == Cardinality({i \in 1..Depth(p) : stack[p][i].fn = "AuthLogin"})

\* the innermost frame is the doRequest that the call itself makes
Outermost(p) == Depth(p) = 2

SetTop(p, f) == stack' = [stack EXCEPT ![p][Depth(p)] = f]

\* return v from the innermost frame of p: to the calling frame's ret, or,
\* from the outermost frame, to the endpoint method, which returns in turn
Return(p, v) ==
    IF Depth(p) = 1
    THEN /\ stack' = [stack EXCEPT ![p] = <<>>]
         /\ result' = [result EXCEPT ![p] = v]
         /\ answer' = [answer EXCEPT ![p] = EndpointReturn(op[p], v)]
    ELSE /\ stack' = [stack EXCEPT ![p] =
                        [SubSeq(@, 1, Depth(p) - 1) EXCEPT ![Depth(p) - 1].ret = v]]
         /\ UNCHANGED <<result, answer>>

\* ---- sync.RWMutex --------------------------------------------------------
\* RLock waits for the writer only
CanRLock_always(p) == TRUE
CanRLock(p) == mu.w = ""
\* Lock waits for the writer and for every reader
CanLock_noReaders(p) == mu.w = ""
CanLock(p) == mu.w = "" /\ mu.r = {}
\* RUnlock by p
RUnlock_held(m, p) == m
RUnlock(m, p) == [m EXCEPT !.r = @ \ {p}]

\* ---- context -------------------------------------------------------------
CtxDone_never(p) == FALSE
CtxDone(p) == ctx[p] = "cancelled"

\* ---- a caller starts a call ---------------------------------------------
\* calls per goroutine: one fewer for a goroutine that shares the client and
\* for one that calls the decoding and form-building methods
CallLimit == IF callers = Procs \/ menu = "decode" THEN MaxCalls - 1 ELSE MaxCalls
\* the calls to choose from
CallsOf == IF menu = "decode" THEN EndpointCalls ELSE Calls

\* The "sid" revision has no context parameter; the *Ctx methods of the
\* "jar" revision take one that is live or already cancelled.
Call(p) ==
    /\ qbClient.state = "ok"
    /\ ~Running(p)
    /\ ncalls[p] < CallLimit
    /\ \E c \in CallsOf :
         /\ op' = [op EXCEPT ![p] = c]
         /\ stack' = [stack EXCEPT ![p] =
                        <<Frame(c.fn, "ret", c), Frame("doRequest", "start", c)>>]
    /\ \E k \in (IF mode = "sid" THEN {"background"} ELSE {"live", "cancelled"}) :
         ctx' = [ctx EXCEPT ![p] = k]
    /\ ncalls' = [ncalls EXCEPT ![p] = @ + 1]
    /\ result' = [result EXCEPT ![p] = NoRet]
    /\ answer' = [answer EXCEPT ![p] = NoAnswer]
    /\ log' = [log EXCEPT ![p] = <<>>]
    /\ logins' = [logins EXCEPT ![p] = 0]
    /\ open' = [open EXCEPT ![p] = 0]
    /\ gotSid' = [gotSid EXCEPT ![p] = FALSE]
    /\ cancelSeen' = [cancelSeen EXCEPT ![p] = ctx'[p] = "cancelled"]
    /\ reauth' = [reauth EXCEPT ![p] = "none"]
    /\ UNCHANGED <<config, qbClient, sid, mu, jar, stored, lastSid>>

\* NewClient(username, password, baseURL, httpClient...): the Client is made
\* and, when both credentials are given, qbClient.AuthLogin() is called (with
\* context.Background() in the "jar" revision); it counts among the calls
\* of the goroutine
NeedsLogin_either(u, pw) == u # <<>> \/ pw # <<>>
NeedsLogin(u, pw) == u # <<>> /\ pw # <<>>

NewClient(p) ==
    /\ qbClient.state = "none"
    /\ ~Running(p)
    /\ ncalls' = [ncalls EXCEPT ![p] = @ + 1]
    /\ IF NeedsLogin(username, password)
       THEN /\ qbClient' = [ClientOf(httpClient) EXCEPT !.state = "login"]
            /\ op' = [op EXCEPT ![p] = NewClientCall]
            /\ stack' = [stack EXCEPT ![p] =
                           <<Frame("AuthLogin", "ret", NewClientCall),
                             Frame("doRequest", "start", NewClientCall)>>]
       ELSE /\ qbClient' = ClientOf(httpClient)
            /\ UNCHANGED <<op, stack>>
    /\ UNCHANGED <<config, sid, mu, jar, result, answer, ctx, log, logins, stored,
                   lastSid, open, gotSid, cancelSeen, reauth>>

\* if err := qbClient.AuthLogin(); err != nil { return nil, ... }
\* return qbClient, nil
NewClientRet(p) ==
    /\ qbClient.state = "login"
    /\ op[p].api = "NewClient"
    /\ ~Running(p)
    /\ qbClient' = [qbClient EXCEPT
                       !.state = IF answer[p].err # NoErr THEN "failed" ELSE "ok"]
    /\ UNCHANGED <<config, sid, mu, jar, stack, result, answer, op, ncalls, ctx, log,
                   logins, stored, lastSid, open, gotSid, cancelSeen, reauth>>

\* the caller cancels the context (or its deadline passes) during the call
Cancel(p) ==
    /\ Running(p)
    /\ ~Top(p).lost
    /\ ctx[p] = "live"
    /\ ctx' = [ctx EXCEPT ![p] = "cancelled"]
    /\ UNCHANGED <<config, qbClient, sid, mu, jar, stack, result, answer, op, ncalls, log,
                   logins, stored, lastSid, open, gotSid, cancelSeen, reauth>>

\* ---- doRequest -----------------------------------------------------------
\* url.Parse(c.baseURL), then the body is read into bodyBuffer
DoRequestStart(p) ==
    /\ At(p, "doRequest", "start")
    /\ LET f == Top(p) IN
       IF ~baseURL.ok
       THEN Return(p, Ret(NoResp, Err("failed to parse base URL")))
       ELSE /\ SetTop(p, [f EXCEPT
                   !.bodyBuffer = IF f.body.nil THEN NilBuffer
                                  ELSE [nil |-> FALSE, bytes |-> ReadAll(f.body)],
                   !.body = IF f.body.nil THEN f.body ELSE Drained(f.body),
                   !.pc = "make"])
            /\ UNCHANGED <<result, answer>>
    /\ UNCHANGED <<config, qbClient, sid, mu, jar, op, ncalls, ctx, log, logins,
                   stored, lastSid, open, gotSid, cancelSeen, reauth>>

\* makeRequest: bytes.NewReader(bodyBuffer) when bodyBuffer is not nil
BodyBytes_stream(f) == IF f.body.nil THEN <<>> ELSE ReadAll(f.body)
BodyBytes(f) == IF f.bodyBuffer.nil THEN <<>> ELSE f.bodyBuffer.bytes

\* makeRequest: http.NewRequest, Content-Type, the SID cookie, the opts
BuildRequest(f, cookie) ==
    [method |-> f.call.method,
     url |-> JoinPath(baseURL, f.call.endpoint),
     query |-> f.call.query,
     contentType |-> f.call.contentType,
     body |-> BodyBytes(f),
     cookie |-> cookie]

\* makeRequest, "sid" revision: c.mu.RLock(), first word of c.sid
MakeRequestRLock(p) ==
    /\ mode = "sid"
    /\ At(p, "doRequest", "make")
    /\ CanRLock(p)
    /\ mu' = [mu EXCEPT !.r = @ \cup {p}]
    /\ SetTop(p, [Top(p) EXCEPT !.cookie = [ptr |-> sid.ptr, len |-> ""],
                                !.pc = "make2"])
    /\ UNCHANGED <<config, qbClient, sid, jar, result, answer, op, ncalls, ctx, log, logins,
                   stored, lastSid, open, gotSid, cancelSeen, reauth>>

\* if c.sid != "" { req.AddCookie(&http.Cookie{Name: "SID", Value: c.sid}) }
SidCookie_none(tok) == EmptyTok
SidCookie(tok) == IF tok.len # "" THEN tok ELSE EmptyTok

\* makeRequest, "sid" revision: second word of c.sid, AddCookie when the
\* string is not empty, c.mu.RUnlock()
MakeRequestRUnlock(p) ==
    /\ At(p, "doRequest", "make2")
    /\ mu' = RUnlock(mu, p)
    /\ LET f == Top(p)
           tok == [ptr |-> f.cookie.ptr, len |-> sid.len]
       IN SetTop(p, [f EXCEPT !.cookie = SidCookie(tok),
                              !.pc = "send"])
    /\ UNCHANGED <<config, qbClient, sid, jar, result, answer, op, ncalls, ctx, log, logins,
                   stored, lastSid, open, gotSid, cancelSeen, reauth>>

\* makeRequest, "jar" revision: no cookie is set by hand
MakeRequestJar(p) ==
    /\ mode = "jar"
    /\ At(p, "doRequest", "make")
    /\ SetTop(p, [Top(p) EXCEPT !.cookie = EmptyTok, !.pc = "send"])
    /\ UNCHANGED <<config, qbClient, sid, mu, jar, result, answer, op, ncalls, ctx, log,
                   logins, stored, lastSid, open, gotSid, cancelSeen, reauth>>

\* c.client.Do(req), first half: the request leaves, unless the context is
\* already done; the cookie jar adds its cookie
Send(p) ==
    /\ At(p, "doRequest", "send")
    /\ LET f == Top(p)
           cookie == IF mode = "jar" THEN Str(jar) ELSE f.cookie
       IN
       /\ IF Outermost(p)
          THEN log' = [log EXCEPT ![p] = Append(@,
                        [req |-> BuildRequest(f, cookie),
                         resp |-> IF CtxDone(p) THEN Aborted ELSE Pending])]
          ELSE UNCHANGED log
       /\ logins' = [logins EXCEPT ![p] =
                       IF f.call.endpoint = LoginPath /\ ~f.lost THEN @ + 1 ELSE @]
       /\ IF CtxDone(p)
          THEN Return(p, Ret(NoResp, Err("context canceled")))
          ELSE /\ SetTop(p, [f EXCEPT !.pc = "recv", !.cookie = cookie])
               /\ UNCHANGED <<result, answer>>
    /\ cancelSeen' = [cancelSeen EXCEPT ![p] = @ \/ ctx[p] = "cancelled"]
    /\ UNCHANGED <<config, qbClient, sid, mu, jar, op, ncalls, ctx, stored, lastSid, open,
                   gotSid, reauth>>

\* the login response AuthLogin takes for a successful login
LoginAccepted_any(resp) == TRUE
LoginAccepted(resp) == resp.status = StatusOK

\* for _, cookie := range resp.Cookies() { if cookie.Name == "SID"
HasSidCookie_always(resp) == TRUE
HasSidCookie(resp) == resp.sid # ""

\* the 403 branch of doRequest is taken on the first response only
ShouldReauth_always(f, resp) == resp.status = StatusForbidden
ShouldReauth_anyFailure(f, resp) == f.attempt = 1 /\ resp.status # StatusOK
ShouldReauth(f, resp) == f.attempt = 1 /\ resp.status = StatusForbidden

SetLastResp(p, r) ==
    IF Outermost(p)
    THEN log' = [log EXCEPT ![p][Len(log[p])].resp = r]
    ELSE UNCHANGED log

\* c.client.Do(req), second half: the context ends the exchange, the
\* transport fails, or the server answers
Recv(p) ==
    /\ At(p, "doRequest", "recv")
    /\ cancelSeen' = [cancelSeen EXCEPT ![p] = @ \/ ctx[p] = "cancelled"]
    /\ LET f == Top(p) IN
       IF CtxDone(p)
       THEN /\ Return(p, Ret(NoResp, Err("context canceled")))
            /\ SetLastResp(p, Aborted)
            /\ UNCHANGED <<jar, stored, lastSid, open, gotSid>>
       ELSE \/ /\ menu = "full" /\ ~f.lost
               /\ Return(p, Ret(NoResp, Err("transport error")))
               /\ SetLastResp(p, Aborted)
               /\ UNCHANGED <<jar, stored, lastSid, open, gotSid>>
            \/ \E r \in ServerResponses(f.call.endpoint) :
               /\ f.lost => ShouldReauth(f, r)
               /\ SetLastResp(p, r)
               \* resp.Body.Close() in the 403 branch
               /\ open' = [open EXCEPT ![p] = IF ShouldReauth(f, r) THEN @ ELSE @ + 1]
               /\ gotSid' = [gotSid EXCEPT ![p] =
                                @ \/ (f.call.endpoint = LoginPath /\ HasSidCookie(r)
                                        /\ r.status = StatusOK)]
               /\ IF mode = "jar" /\ r.sid # ""
                  THEN jar' = r.sid /\ stored' = stored \cup {r.sid}
                  ELSE UNCHANGED <<jar, stored>>
               /\ lastSid' = IF mode = "jar" /\ f.call.endpoint = LoginPath
                                /\ r.status = StatusOK /\ r.sid # ""
                             THEN r.sid ELSE lastSid
               /\ IF ShouldReauth(f, r)
                  THEN /\ UNCHANGED <<result, answer>>
                       /\ IF Nest(p) < MaxNest
                          THEN stack' = [stack EXCEPT ![p] =
                                  [@ EXCEPT ![Depth(p)].pc = "reauth"]
                                  \o <<Frame("AuthLogin", "ret", AuthLoginCall),
                                       Frame("doRequest", "start", AuthLoginCall)>>]
                          ELSE SetTop(p, [Frame("doRequest", "start", AuthLoginCall)
                                             EXCEPT !.lost = TRUE])
                  ELSE Return(p, Ret(r, NoErr))
    /\ UNCHANGED <<config, qbClient, sid, mu, op, ncalls, ctx, logins, reauth>>

\* if err := c.AuthLogin(); err != nil
ReauthFailed_ignored(ret) == FALSE
ReauthFailed(ret) == ret.err # NoErr

\* back in doRequest after c.AuthLogin()
AfterReauth(p) ==
    /\ At(p, "doRequest", "reauth")
    /\ reauth' = [reauth EXCEPT ![p] =
                    IF ~Outermost(p) THEN @
                    ELSE IF Top(p).ret.err # NoErr THEN "failed" ELSE "ok"]
    /\ LET f == Top(p) IN
       IF ReauthFailed(f.ret)
       THEN Return(p, Ret(NoResp, Wrap("re-authentication failed", f.ret.err)))
       ELSE /\ SetTop(p, [f EXCEPT !.attempt = @ + 1, !.pc = "make", !.ret = NoRet])
            /\ UNCHANGED <<result, answer>>
    /\ UNCHANGED <<config, qbClient, sid, mu, jar, op, ncalls, ctx, log, logins,
                   stored, lastSid, open, gotSid, cancelSeen>>

\* ---- AuthLogin -----------------------------------------------------------
\* defer resp.Body.Close() is reached: before the status is tested in the
\* "jar" revision, after it in the "sid" revision
DefersClose(resp) == mode = "jar" \/ LoginAccepted(resp)

\* AuthLogin after doPostResponse returned; the deferred Close runs when
\* AuthLogin returns
AuthLoginRet(p) ==
    /\ At(p, "AuthLogin", "ret")
    /\ LET f == Top(p) IN
       IF f.ret.err # NoErr
       THEN /\ Return(p, Ret(NoResp, Wrap("AuthLogin error", f.ret.err)))
            /\ UNCHANGED open
       ELSE IF ~LoginAccepted(f.ret.resp)
       THEN /\ Return(p, Ret(NoResp, StatusErr("AuthLogin error", f.ret.resp)))
            /\ open' = [open EXCEPT ![p] = IF DefersClose(f.ret.resp) THEN @ - 1 ELSE @]
       ELSE IF mode = "sid" /\ HasSidCookie(f.ret.resp)
       THEN /\ SetTop(p, [f EXCEPT !.pc = "lock"])
            /\ UNCHANGED <<result, answer, open>>
       ELSE /\ Return(p, NoRet)
            /\ open' = [open EXCEPT ![p] = IF DefersClose(f.ret.resp) THEN @ - 1 ELSE @]
    /\ UNCHANGED <<config, qbClient, sid, mu, jar, op, ncalls, ctx, log, logins,
                   stored, lastSid, gotSid, cancelSeen, reauth>>

\* c.mu.Lock(), first word of c.sid = cookie.Value
AuthLoginLock(p) ==
    /\ At(p, "AuthLogin", "lock")
    /\ CanLock(p)
    /\ mu' = [mu EXCEPT !.w = p]
    /\ sid' = [sid EXCEPT !.ptr = Top(p).ret.resp.sid]
    /\ SetTop(p, [Top(p) EXCEPT !.pc = "unlock"])
    /\ UNCHANGED <<config, qbClient, jar, result, answer, op, ncalls, ctx, log, logins,
                   stored, lastSid, open, gotSid, cancelSeen, reauth>>

\* second word of c.sid, c.mu.Unlock(), return nil
AuthLoginUnlock(p) ==
    /\ At(p, "AuthLogin", "unlock")
    /\ mu' = [mu EXCEPT !.w = ""]
    /\ sid' = [sid EXCEPT !.len = Top(p).ret.resp.sid]
    /\ stored' = stored \cup {Top(p).ret.resp.sid}
    /\ lastSid' = Top(p).ret.resp.sid
    /\ Return(p, NoRet)
    /\ open' = [open EXCEPT ![p] = @ - 1]
    /\ UNCHANGED <<config, qbClient, jar, op, ncalls, ctx, log, logins, gotSid,
                   cancelSeen, reauth>>

\* ---- doGet / doPost ------------------------------------------------------
\* resp.StatusCode != http.StatusOK
NotOK_non2xx(resp) == resp.status \notin 200..299
NotOK(resp) == resp.status # StatusOK

\* doGet after doRequest returned
DoGetRet(p) ==
    /\ At(p, "doGet", "ret")
    /\ LET f == Top(p) IN
       IF f.ret.err # NoErr
       THEN Return(p, Ret(NoResp, f.ret.err))
       ELSE IF NotOK(f.ret.resp)
       THEN Return(p, Ret(NoResp, StatusErr("unexpected response code", f.ret.resp)))
       ELSE IF f.ret.resp.readErr
       THEN Return(p, Ret(NoResp, Wrap("ReadAll error", Err("read error"))))
       ELSE Return(p, Ret(f.ret.resp, NoErr))
    \* defer resp.Body.Close()
    /\ open' = [open EXCEPT ![p] = IF Top(p).ret.err # NoErr THEN @ ELSE @ - 1]
    /\ UNCHANGED <<config, qbClient, sid, mu, jar, op, ncalls, ctx, log, logins,
                   stored, lastSid, gotSid, cancelSeen, reauth>>

\* doPost after doPostResponse returned
DoPostRet(p) ==
    /\ At(p, "doPost", "ret")
    /\ LET f == Top(p) IN
       IF f.ret.err # NoErr
       THEN Return(p, Ret(NoResp, f.ret.err))
       ELSE IF f.ret.resp.readErr
       THEN Return(p, Ret(NoResp, Err("read error")))
       ELSE IF NotOK(f.ret.resp)
       THEN Return(p, Ret(NoResp, StatusErr("POST error", f.ret.resp)))
       ELSE Return(p, Ret(f.ret.resp, NoErr))
    \* defer resp.Body.Close()
    /\ open' = [open EXCEPT ![p] = IF Top(p).ret.err # NoErr THEN @ ELSE @ - 1]
    /\ UNCHANGED <<config, qbClient, sid, mu, jar, op, ncalls, ctx, log, logins,
                   stored, lastSid, gotSid, cancelSeen, reauth>>

Next ==
    \/ \E p \in callers : NewClient(p)
    \/ \E p \in callers : NewClientRet(p)
    \/ \E p \in callers : Call(p)
    \/ \E p \in callers : Cancel(p)
    \/ \E p \in callers : DoRequestStart(p)
    \/ \E p \in callers : MakeRequestRLock(p)
    \/ \E p \in callers : MakeRequestRUnlock(p)
    \/ \E p \in callers : MakeRequestJar(p)
    \/ \E p \in callers : Send(p)
    \/ \E p \in callers : Recv(p)
    \/ \E p \in callers : AfterReauth(p)
    \/ \E p \in callers : AuthLoginRet(p)
    \/ \E p \in callers : AuthLoginLock(p)
    \/ \E p \in callers : AuthLoginUnlock(p)
    \/ \E p \in callers : DoGetRet(p)
    \/ \E p \in callers : DoPostRet(p)

Spec == Init /\ [][Next]_vars

\* every goroutine that can take a step eventually takes one
LiveSpec == (InitSingle \/ InitConstruct) /\ [][Next]_vars /\ WF_vars(Next)

\* ---- the functions applied to their arguments -----------------------------
machine == <<env, qbClient, sid, mu, jar, stack, result, answer, op, ncalls, ctx, log,
             logins, stored, lastSid, open, gotSid, cancelSeen, reauth>>

\* no request is under way; a function of the package is applied to a value
InitApply ==
    /\ callers = {}
    /\ menu = "brief"
    /\ mode = "sid"
    /\ baseURL \in {b \in BaseURLs : b.ok}
    /\ InitClient
    /\ username = <<"u">>
    /\ password = <<"p">>
    /\ httpClient \in {hc \in HttpClients : hc.args = 0}
    /\ qbClient = ClientOf(httpClient)
    /\ out = NoOut
    /\ \/ arg \in {[fn |-> "buildTorrentAddForm", params |-> x] : x \in AddInputs}
       \/ arg \in {[fn |-> "TorrentInfo.UnmarshalJSON", data |-> x] :
                      x \in TorrentInfoInputs}
       \/ arg \in {[fn |-> "TorrentsProperties.UnmarshalJSON", data |-> x] :
                      x \in PropertiesInputs}
       \/ arg \in {[fn |-> "TorrentsInfo", args |-> x] : x \in InfoInputs}

\* buildTorrentAddForm(params)
BuildForm ==
    /\ arg.fn = "buildTorrentAddForm"
    /\ ~out.done
    /\ out' = [done |-> TRUE, form |-> BuildTorrentAddForm(arg.params)]
    /\ UNCHANGED <<machine, arg>>

\* json.Unmarshal(data, &torrentInfo)
DecodeTorrentInfo ==
    /\ arg.fn = "TorrentInfo.UnmarshalJSON"
    /\ ~out.done
    /\ out' = [done |-> TRUE, v |-> UnmarshalTorrentInfo(arg.data)]
    /\ UNCHANGED <<machine, arg>>

\* json.Unmarshal(data, &props)
DecodeTorrentsProperties ==
    /\ arg.fn = "TorrentsProperties.UnmarshalJSON"
    /\ ~out.done
    /\ out' = [done |-> TRUE, v |-> UnmarshalTorrentsProperties(arg.data)]
    /\ UNCHANGED <<machine, arg>>

\* the query TorrentsInfo(params...) passes to doGet
BuildQuery ==
    /\ arg.fn = "TorrentsInfo"
    /\ ~out.done
    /\ out' = [done |-> TRUE, query |-> TorrentsInfoQuery(arg.args)]
    /\ UNCHANGED <<machine, arg>>

ApplyNext ==
    \/ BuildQuery
    \/ BuildForm
    \/ DecodeTorrentInfo
    \/ DecodeTorrentsProperties

ApplySpec == InitApply /\ [][ApplyNext]_vars

\* ---- observations used by the properties ---------------------------------
Started(p) == op[p].fn # "none"
Done(p) == Started(p) /\ ~Running(p)
EndpointCall(p) == op[p].fn \in {"doGet", "doPost"}
\* the doRequest that the call of p makes has returned; its return value is
\* in the ret of the frame that called it
Returned(p) == Depth(p) = 1
DoRequestRet(p) == stack[p][1].ret
IsResponse(r) == r.status > 0
HeadIs(e, m) == e.msg # <<>> /\ Head(e.msg) = m

TypeOK ==
    /\ mode \in {"sid", "jar"}
    /\ \A p \in Procs : Depth(p) <= 2 + 2 * MaxNest

\* ---- C1 ------------------------------------------------------------------
\* C1: during one endpoint call at most one login request is sent to
\* /api/v2/auth/login, whatever the server answers, a 403 from the login
\* endpoint included.
C1_AtMostOneLogin ==
    \A p \in callers : EndpointCall(p) => logins[p] <= 1

\* ---- C2 ------------------------------------------------------------------
\* C2: a doRequest never issues its request more than twice; when the first
\* response is 403 and the re-authentication succeeds the request is issued
\* exactly once more, and a second 403 is what doRequest returns.
C2_RetryOnce ==
    \A p \in callers :
        /\ Len(log[p]) <= 2
        /\ (Returned(p) /\ reauth[p] = "ok") =>
               /\ Len(log[p]) = 2
               /\ log[p][1].resp.status = StatusForbidden
               /\ log[p][2].resp.status = StatusForbidden =>
                      DoRequestRet(p) = Ret(log[p][2].resp, NoErr)
        /\ (Len(log[p]) >= 1 /\ log[p][1].resp.status = StatusForbidden
            /\ reauth[p] = "none") => ~Returned(p)

C2_Witness ==
    \E p \in callers :
        /\ Returned(p) /\ reauth[p] = "ok" /\ Len(log[p]) = 2
        /\ log[p][1].resp.status = StatusForbidden
        /\ log[p][2].resp.status = StatusForbidden
        /\ DoRequestRet(p).resp.status = StatusForbidden

\* ---- C3 ------------------------------------------------------------------
\* C3: every call that has started returns, a result or an error, whatever
\* the server answers (each HTTP exchange completing).
C3_Terminates ==
    \A p \in Procs : Running(p) ~> ~Running(p)

\* ---- C4 ------------------------------------------------------------------
\* C4: AuthLogin makes a single login exchange, and when the status of that
\* response is not 200 it returns an error quoting that status and body.
C4_SingleExchange ==
    \A p \in callers :
        op[p].fn = "AuthLogin" =>
            /\ logins[p] <= 1
            /\ (Done(p) /\ Len(log[p]) >= 1 /\ IsResponse(log[p][1].resp)
                /\ log[p][1].resp.status # StatusOK) =>
                   /\ HeadIs(result[p].err, "AuthLogin error")
                   /\ result[p].err.status = log[p][1].resp.status
                   /\ result[p].err.body = log[p][1].resp.body

InRead(p) == At(p, "doRequest", "make2")
InWrite(p) == At(p, "AuthLogin", "unlock")

\* C6: while a goroutine writes Client.sid no other goroutine reads or
\* writes it; the mutex is held accordingly.
C6_Exclusion ==
    /\ \A p \in callers :
          InWrite(p) => \A q \in callers \ {p} : ~InRead(q) /\ ~InWrite(q)
    /\ mu.w # "" => mu.r = {}
    /\ \A p \in callers : (InRead(p) <=> p \in mu.r) /\ (InWrite(p) <=> mu.w = p)

C6_Witness ==
    \E p, q \in callers :
        p # q /\ InWrite(p) /\ At(q, "doRequest", "make") /\ sid.ptr # sid.len

\* ---- C7 ------------------------------------------------------------------
Coherent(t) == t.ptr = t.len
ValidTok(t) == t = EmptyTok \/ (Coherent(t) /\ t.ptr \in stored)

\* C7: every SID attached to a request is empty or wholly the value one
\* completed login stored, and once every call has returned the stored SID
\* is the value one of the logins obtained.
C7_TokensWhole ==
    /\ \A p \in callers : \A i \in 1..Depth(p) :
          (stack[p][i].fn = "doRequest"
           /\ stack[p][i].pc \in {"send", "recv", "reauth"})
              => ValidTok(stack[p][i].cookie)
    /\ \A p \in callers : \A i \in 1..Len(log[p]) : ValidTok(log[p][i].req.cookie)
    /\ ((\A p \in callers : Done(p)) /\ stored # {}) =>
          /\ mode = "sid" => Coherent(sid) /\ sid.ptr \in stored
          /\ mode = "jar" => jar \in stored

C7_Witness ==
    /\ callers = Procs
    /\ \A p \in callers : Done(p) /\ reauth[p] = "ok" /\ result[p].err = NoErr
    /\ stored = Tokens
    /\ \E p \in callers : log[p][2].req.cookie # EmptyTok
    /\ \E p \in callers : log[p][2].req.cookie # sid

\* ---- C8 ------------------------------------------------------------------
\* C8: a call whose context was cancelled before its first request or
\* during one of its requests returns an error and no result.
C8_CancelledFails ==
    \A p \in callers :
        (Done(p) /\ cancelSeen[p]) =>
            result[p].err # NoErr /\ result[p].resp = NoResp

C8_Witness ==
    \E p \in callers :
        /\ Done(p) /\ cancelSeen[p] /\ reauth[p] = "ok"
        /\ Len(log[p]) = 2 /\ log[p][2].resp = Aborted
        /\ HeadIs(result[p].err, "context canceled")

\* ---- C9 ------------------------------------------------------------------
\* C9: AuthLogin returns success only for a login response that is 200
\* with a body that does not report a failed login.
C9_RejectsFailedLogin ==
    \A p \in callers :
        (op[p].fn = "AuthLogin" /\ Done(p) /\ result[p].err = NoErr) =>
            /\ log[p] # <<>>
            /\ log[p][Len(log[p])].resp.status = StatusOK
            /\ log[p][Len(log[p])].resp.body # "Fails."

\* ---- C10 -----------------------------------------------------------------
\* C10: the body reader is drained once, before the first attempt; both
\* attempts carry the bytes it held, and the retried request equals the
\* first in everything but the SID cookie.
C10_SameRequest ==
    \A p \in callers :
        /\ \A i \in 1..Depth(p) :
              (stack[p][i].fn = "doRequest" /\ stack[p][i].pc # "start") =>
                  /\ stack[p][i].body.pos = Len(stack[p][i].body.data)
                  /\ stack[p][i].bodyBuffer.nil = stack[p][i].body.nil
                  /\ stack[p][i].bodyBuffer.bytes = stack[p][i].body.data
        /\ \A i \in 1..Len(log[p]) : log[p][i].req.body = op[p].body.data
        /\ Len(log[p]) = 2 =>
              [log[p][1].req EXCEPT !.cookie = EmptyTok]
                  = [log[p][2].req EXCEPT !.cookie = EmptyTok]

C10_Witness ==
    \E p \in callers :
        /\ Len(log[p]) = 2 /\ op[p].api = "TorrentsDelete"
        /\ IsResponse(log[p][2].resp)
        /\ log[p][2].req.body = DeleteForm(<<"h", "1">>)
        /\ log[p][1].req.cookie # log[p][2].req.cookie

\* ---- C11 -----------------------------------------------------------------
\* the login requests a call sends when no re-authentication happens: the
\* one AuthLogin itself is, none for an endpoint call
OwnLogins(p) == IF op[p].fn = "AuthLogin" THEN 1 ELSE 0

\* C11: when the first attempt of the doRequest a call makes ends in a
\* transport error or in a status other than 403, one request has been sent,
\* no login is attempted and doRequest returns that error or that response;
\* a transport error on the retried request is returned and nothing more is
\* sent.
C11_OnlyRecovery ==
    \A p \in callers :
        /\ (Len(log[p]) >= 1 /\ log[p][1].resp # Pending
            /\ log[p][1].resp.status # StatusForbidden) =>
               /\ Len(log[p]) = 1
               /\ logins[p] = OwnLogins(p)
               /\ reauth[p] = "none"
               /\ Running(p) =>
                     /\ Returned(p)
                     /\ IF IsResponse(log[p][1].resp)
                        THEN DoRequestRet(p) = Ret(log[p][1].resp, NoErr)
                        ELSE /\ DoRequestRet(p).resp = NoResp
                             /\ DoRequestRet(p).err \in
                                   {Err("transport error"), Err("context canceled")}
        /\ (Len(log[p]) = 2 /\ log[p][2].resp = Aborted) =>
               /\ Running(p) =>
                     /\ Returned(p)
                     /\ DoRequestRet(p).resp = NoResp
                     /\ DoRequestRet(p).err \in
                           {Err("transport error"), Err("context canceled")}
               /\ Done(p) => result[p].resp = NoResp /\ result[p].err # NoErr

C11_Witness ==
    \E p \in callers :
        /\ EndpointCall(p) /\ Returned(p) /\ Len(log[p]) = 1 /\ logins[p] = 0
        /\ log[p][1].resp.status = 500
        /\ DoRequestRet(p) = Ret(log[p][1].resp, NoErr)

\* ---- C12 -----------------------------------------------------------------
\* the step in which a request of p gets its SID cookie: the end of
\* makeRequest in the "sid" revision, the cookie jar inside client.Do in the
\* "jar" revision
Attaches(p) ==
    \/ mode = "sid" /\ At(p, "doRequest", "make2") /\ stack'[p] # stack[p]
    \/ mode = "jar" /\ At(p, "doRequest", "send") /\ ~CtxDone(p)
       /\ stack'[p] # stack[p]

FinalResponse(p) == log[p][Len(log[p])].resp
FailedStatus(p) ==
    /\ Done(p) /\ EndpointCall(p) /\ log[p] # <<>> /\ reauth[p] # "failed"
    /\ IsResponse(FinalResponse(p))
    /\ FinalResponse(p).status # StatusOK

FormHas(form, name) == \E i \in 1..Len(form) : form[i].name = name
FieldValue(form, name) ==
    form[CHOOSE i \in 1..Len(form) :
            form[i].name = name /\ \A j \in 1..(i - 1) : form[j].name # name].data
Built == arg.fn = "buildTorrentAddForm" /\ out.done

\* C15: the form has a scalar field exactly when the field of the params
\* differs from the unset value of its type: "" for a string, 0 for a
\* number, false for a bool, nil for a pointer.
C15_FieldIffSet ==
    Built =>
        LET p == arg.params
            f == out.form
        IN /\ FormHas(f, "savepath") <=> p.SavePath # <<>>
           /\ FormHas(f, "cookie") <=> p.Cookie # <<>>
           /\ FormHas(f, "category") <=> p.Category # <<>>
           /\ FormHas(f, "tags") <=> p.Tags # <<>>
           /\ FormHas(f, "rename") <=> p.Rename # <<>>
           /\ FormHas(f, "skip_checking") <=> p.SkipCheck
           /\ FormHas(f, "paused") <=> p.Paused
           /\ FormHas(f, "autoTMM") <=> p.AutoTMM
           /\ FormHas(f, "sequentialDownload") <=> p.Sequential
           /\ FormHas(f, "firstLastPiecePrio") <=> p.FirstLast
           /\ FormHas(f, "root_folder") <=> ~p.RootFolder.nil
           /\ FormHas(f, "upLimit") <=> p.UpLimit # 0
           /\ FormHas(f, "dlLimit") <=> p.DlLimit # 0
           /\ FormHas(f, "ratioLimit") <=> p.RatioLimit # 0
           /\ FormHas(f, "seedingTimeLimit") <=> p.SeedingTime # 0

\* ---- C16 -----------------------------------------------------------------
\* strconv.Atoi of a string of digits
DigitVal(c) == CHOOSE d \in 0..9 : Digits[d + 1] = c
AllDigits(v) == v # <<>> /\ \A i \in 1..Len(v) : IsDigit(v[i])
RECURSIVE Atoi(_)
Atoi(v) ==
    IF v = <<>> THEN 0
    ELSE Atoi(SubSeq(v, 1, Len(v) - 1)) * 10 + DigitVal(v[Len(v)])
\* digits, a point, two digits
TwoDecimals(v) ==
    /\ Len(v) >= 4
    /\ v[Len(v) - 2] = "."
    /\ AllDigits(SubSeq(v, 1, Len(v) - 3))
    /\ AllDigits(SubSeq(v, Len(v) - 1, Len(v)))
\* the number a string of that shape denotes, in hundredths
ParseHundredths(v) ==
    Atoi(SubSeq(v, 1, Len(v) - 3)) * 100 + Atoi(SubSeq(v, Len(v) - 1, Len(v)))

\* C16: a ratioLimit field has exactly two decimals and is the given ratio
\* rounded to hundredths (2.5 is "2.50"); an upLimit, dlLimit or
\* seedingTimeLimit field is the given integer in plain decimal digits.
C16_NumberFormats ==
    Built =>
        LET p == arg.params
            f == out.form
        IN /\ FormHas(f, "ratioLimit") =>
                 LET v == FieldValue(f, "ratioLimit")
                     d == ParseHundredths(v) * RatioUnit - p.RatioLimit * 100
                 IN /\ TwoDecimals(v)
                    /\ 2 * d <= RatioUnit /\ 2 * d >= -RatioUnit
           /\ FormHas(f, "upLimit") =>
                 /\ AllDigits(FieldValue(f, "upLimit"))
                 /\ Atoi(FieldValue(f, "upLimit")) = p.UpLimit
           /\ FormHas(f, "dlLimit") =>
                 /\ AllDigits(FieldValue(f, "dlLimit"))
                 /\ Atoi(FieldValue(f, "dlLimit")) = p.DlLimit
           /\ FormHas(f, "seedingTimeLimit") =>
                 /\ AllDigits(FieldValue(f, "seedingTimeLimit"))
                 /\ Atoi(FieldValue(f, "seedingTimeLimit")) = p.SeedingTime

C16_Witness ==
    /\ Built
    /\ arg.params.RatioLimit = 20
    /\ FieldValue(out.form, "ratioLimit") = <<"2", ".", "5", "0">>
    /\ arg.params.UpLimit = 1440
    /\ FieldValue(out.form, "upLimit") = <<"1", "4", "4", "0">>
    /\ arg.params.DlLimit = 5
    /\ FieldValue(out.form, "dlLimit") = <<"5">>
    /\ FormHas(out.form, "seedingTimeLimit")

\* ---- C18 -----------------------------------------------------------------
\* strings.Join(items, ",") and the commas of a string
RECURSIVE Join(_)
Join(items) ==
    IF Len(items) = 0 THEN <<>>
    ELSE IF Len(items) = 1 THEN items[1]
    ELSE items[1] \o <<",">> \o Join(Tail(items))
Commas(s) == Cardinality({i \in 1..Len(s) : s[i] = ","})
DecodedInfo == arg.fn = "TorrentInfo.UnmarshalJSON" /\ out.done /\ ~out.v.err

\* C18: an empty or absent tags string decodes to an empty list; a
\* non-empty one with N comma-separated items decodes to those N items in
\* order.
C18_TagsDecoded ==
    DecodedInfo =>
        LET raw == IF arg.data.hasTags THEN arg.data.tags ELSE <<>>
            tags == out.v.Tags
        IN /\ ~tags.nil
           /\ raw = <<>> => Len(tags.items) = 0
           /\ raw # <<>> =>
                 /\ Len(tags.items) = Commas(raw) + 1
                 /\ Join(tags.items) = raw
                 /\ \A i \in 1..Len(tags.items) : Commas(tags.items[i]) = 0

C18_Witness ==
    /\ DecodedInfo
    /\ arg.data.tags = <<"a", ",", "b">>
    /\ out.v.Tags.items = << <<"a">>, <<"b">> >>

\* ---- C19 -----------------------------------------------------------------
DecodedProperties ==
    arg.fn = "TorrentsProperties.UnmarshalJSON" /\ out.done /\ ~out.v.err
\* t is the instant sec seconds after the Unix epoch
IsInstant(t, sec) == t.ext = sec + UnixToInternal
\* the wire value wire decoded to the time t
TimestampDecoded(wire, t) ==
    /\ wire = -1 => t = ZeroTime
    /\ wire # -1 => IsInstant(t, wire)
\* the same for the seconds a time.Time can hold; beyond them t.Unix() still
\* gives the wire value back
TimestampDecodedInRange(wire, t) ==
    /\ wire = -1 => t = ZeroTime
    /\ wire # -1 => UnixOf(t) = wire /\ t.loc = "Local"
    /\ (wire # -1 /\ wire <= MaxInt - UnixToInternal) => IsInstant(t, wire)

\* C19 as stated: each of addition_date, completion_date, creation_date and
\* last_seen decodes to the zero time when it is -1 and otherwise to the
\* instant that many seconds after the Unix epoch.
C19_Timestamps ==
    DecodedProperties =>
        /\ TimestampDecoded(arg.data.addition_date, out.v.AdditionDate)
        /\ TimestampDecoded(arg.data.completion_date, out.v.CompletionDate)
        /\ TimestampDecoded(arg.data.creation_date, out.v.CreationDate)
        /\ TimestampDecoded(arg.data.last_seen, out.v.LastSeen)

\* C19 amended: -1 decodes to the zero time; every other value that
\* time.Time can hold decodes to the instant that many seconds after the
\* Unix epoch, and every other value at all to a time whose Unix() is it.
C19_TimestampsInRange ==
    DecodedProperties =>
        /\ TimestampDecodedInRange(arg.data.addition_date, out.v.AdditionDate)
        /\ TimestampDecodedInRange(arg.data.completion_date, out.v.CompletionDate)
        /\ TimestampDecodedInRange(arg.data.creation_date, out.v.CreationDate)
        /\ TimestampDecodedInRange(arg.data.last_seen, out.v.LastSeen)

C19_Witness ==
    /\ DecodedProperties
    /\ arg.data.addition_date = 7 /\ IsInstant(out.v.AdditionDate, 7)
    /\ arg.data.completion_date = -1 /\ out.v.CompletionDate = ZeroTime
    /\ arg.data.creation_date = 0 /\ out.v.CreationDate # ZeroTime
    /\ arg.data.last_seen = MinInt /\ IsInstant(out.v.LastSeen, MinInt)

\* ---- C17 -----------------------------------------------------------------
\* the parts of a form named name, in order
RECURSIVE PartsNamed(_, _)
PartsNamed(form, name) ==
    IF form = <<>> THEN <<>>
    ELSE (IF Head(form).name = name THEN <<Head(form)>> ELSE <<>>)
         \o PartsNamed(Tail(form), name)
\* req carries the torrents and the URLs of params
CarriesLists(req, params) ==
    LET files == PartsNamed(req.body, "torrents")
        urls == PartsNamed(req.body, "urls")
    IN /\ req.method = "POST"
       /\ req.contentType = "multipart/form-data"
       /\ Len(files) = Len(params.Torrents)
       /\ \A i \in 1..Len(files) :
             /\ files[i].filename = TorrentFilename(i - 1)
             /\ files[i].data = params.Torrents[i]
       /\ Len(urls) = Len(params.URLs)
       /\ \A i \in 1..Len(urls) :
             urls[i].filename = <<>> /\ urls[i].data = params.URLs[i]
AddCall(p) == op[p].api = "TorrentsAddParams"

\* C17: every request of a TorrentsAddParams call carries one file part
\* "torrents" per payload, named torrent0.torrent, torrent1.torrent, ... in
\* order with the payload's bytes, and one "urls" field per URL in order; the
\* call sends a request whatever the lists, and when the first answer is 200
\* that is the only request and the call succeeds.
C17_AddRequest ==
    \A p \in callers :
        AddCall(p) =>
            /\ \A i \in 1..Len(log[p]) : CarriesLists(log[p][i].req, op[p].params)
            /\ Done(p) => Len(log[p]) >= 1
            /\ (Done(p) /\ log[p] # <<>> /\ log[p][1].resp.status = StatusOK) =>
                   Len(log[p]) = 1 /\ answer[p] = NoAnswer

C17_Witness ==
    \E p \in callers :
        /\ AddCall(p) /\ Done(p) /\ Len(log[p]) = 1 /\ answer[p] = NoAnswer
        /\ log[p][1].resp.status = StatusOK
        /\ Len(op[p].params.Torrents) = 2 /\ Len(op[p].params.URLs) = 2
        /\ Len(log[p][1].req.body) = 4
        /\ log[p][1].req.body[2].filename = TorrentFilename(1)
        /\ log[p][1].req.body[2].data = <<"d", "2", "e">>
        /\ log[p][1].req.body[4].data = <<"m", "2">>

\* the same call with no torrent and no URL
EmptyParamsSent ==
    \E p \in callers :
        /\ AddCall(p) /\ Done(p) /\ Len(log[p]) = 1 /\ answer[p] = NoAnswer
        /\ op[p].params = ZeroParams
        /\ log[p][1].req.body = <<>>

\* ---- C20 -----------------------------------------------------------------
StructuredCall(p) == op[p].target # "none"
\* the call of p ended on a 200 response with an empty body
EmptyBody(p) ==
    /\ Done(p) /\ log[p] # <<>> /\ reauth[p] # "failed"
    /\ FinalResponse(p).status = StatusOK
    /\ FinalResponse(p).body = ""

\* C20: a method that decodes its response into a value returns an error
\* and no value when the 200 response has an empty body.
C20_EmptyBodyFails ==
    \A p \in callers :
        (StructuredCall(p) /\ EmptyBody(p)) =>
            answer[p].err # NoErr /\ answer[p].value = "nil"

C20_Witness ==
    \E p \in callers :
        /\ StructuredCall(p) /\ EmptyBody(p)
        /\ op[p].api = "SyncMainData"
        /\ answer[p] = [value |-> "nil", err |-> Err("failed to decode response")]

\* ---- C21 -----------------------------------------------------------------
\* NewClient has returned a Client after logging in
Constructed == qbClient.state = "ok" /\ \E p \in callers : op[p].api = "NewClient"

StoresSid(p) ==
    /\ Running(p) /\ Top(p).fn = "AuthLogin" /\ Top(p).pc \in {"lock", "unlock"}
    /\ Top(p).ret.err = NoErr
    /\ Top(p).ret.resp.status = StatusOK
    /\ Top(p).ret.resp.sid # ""

\* C22: Client.sid changes only in a step of an AuthLogin whose response is
\* 200 and carries an SID cookie, and then to that cookie's value; every
\* other step, those of a login that failed included, leaves it as it was.
C22_TokenFrame ==
    [][sid' # sid =>
          \E p \in callers :
              /\ StoresSid(p)
              /\ sid'.ptr \in {sid.ptr, Top(p).ret.resp.sid}
              /\ sid'.len \in {sid.len, Top(p).ret.resp.sid}]_vars

\* a login refused with an SID cookie left the token of the login before it
C22_Witness ==
    \E p \in callers :
        /\ mode = "sid" /\ op[p].api = "AuthLogin" /\ Done(p)
        /\ result[p].err # NoErr
        /\ log[p] # <<>> /\ log[p][Len(log[p])].resp.status = 500
        /\ log[p][Len(log[p])].resp.sid = "t2"
        /\ sid = Str("t1")

\* ---- C23 -----------------------------------------------------------------
\* the next step of the call p is making
Step(p) ==
    \/ DoRequestStart(p) \/ MakeRequestRLock(p) \/ MakeRequestRUnlock(p)
    \/ MakeRequestJar(p) \/ Send(p) \/ Recv(p) \/ AfterReauth(p)
    \/ AuthLoginRet(p) \/ AuthLoginLock(p) \/ AuthLoginUnlock(p)
    \/ DoGetRet(p) \/ DoPostRet(p)
Holds(p) == p \in mu.r \/ mu.w = p
\* p has a request on the network, in any of its frames
OnNetwork(p) ==
    \E i \in 1..Depth(p) :
        stack[p][i].fn = "doRequest" /\ stack[p][i].pc \in {"send", "recv"}

\* C23: a goroutine inside a call can always take its next step, or waits
\* for Client.mu while the goroutine that holds it can take its own; no
\* goroutine holds the mutex while it has a request on the network, and a
\* goroutine that asks for the write lock holds no lock.
C23_NoDeadlock ==
    \A p \in callers :
        /\ Running(p) =>
              \/ ENABLED Step(p)
              \/ \E q \in callers \ {p} : Holds(q) /\ ENABLED Step(q)
        /\ OnNetwork(p) => ~Holds(p)
        /\ At(p, "AuthLogin", "lock") => ~Holds(p)

\* one goroutine waits for the write lock while the other reads the token
C23_Witness ==
    \E p, q \in callers :
        /\ p # q
        /\ At(p, "AuthLogin", "lock") /\ ~ENABLED Step(p)
        /\ q \in mu.r /\ At(q, "doRequest", "make2")

\* ---- C24 -----------------------------------------------------------------
\* AuthLogin of p has in hand a login response answered 200 without an SID
\* cookie
LoginWithoutSid(p) ==
    /\ At(p, "AuthLogin", "ret")
    /\ Top(p).ret.err = NoErr
    /\ Top(p).ret.resp.status = StatusOK
    /\ Top(p).ret.resp.sid = ""
\* what the innermost frame of p returns in this step
ReturnsNoErr(p) ==
    /\ Len(stack'[p]) = Depth(p) - 1
    /\ IF Depth(p) = 1 THEN result'[p].err = NoErr
       ELSE stack'[p][Depth(p) - 1].ret.err = NoErr
\* p, alone on the client, sends the retried request of a call during which
\* no login was answered with an SID cookie
RetriesUnrenewed(p) ==
    /\ callers = {p}
    /\ At(p, "doRequest", "send") /\ Outermost(p) /\ Top(p).attempt = 2
    /\ ~gotSid[p]

\* C24: an AuthLogin whose login was answered 200 without an SID cookie
\* returns nil and leaves the token (Client.sid, the jar's cookie) as it was;
\* the request retried after such a re-authentication carries the cookie
\* of the request that was answered 403.
C24_StaleRetry ==
    [][\A p \in callers :
          /\ (LoginWithoutSid(p) /\ stack'[p] # stack[p]) =>
                 ReturnsNoErr(p) /\ sid' = sid /\ jar' = jar
          /\ (RetriesUnrenewed(p) /\ log'[p] # log[p]) =>
                 /\ log[p][1].resp.status = StatusForbidden
                 /\ log'[p][2].req.cookie = log[p][1].req.cookie]_vars

C24_Witness ==
    \E p \in callers :
        /\ EndpointCall(p) /\ Done(p) /\ ~gotSid[p] /\ reauth[p] = "ok"
        /\ Len(log[p]) = 2
        /\ log[p][1].req.cookie = Str("t1")
        /\ log[p][2].req.cookie = Str("t1")
        /\ log[p][2].resp.status = StatusForbidden

\* ---- C25 -----------------------------------------------------------------
\* C25: when a call has returned, every response body obtained during it has
\* been closed: the first response answered 403, the login response whatever
\* its status, and the final response that doGet or doPost read.
C25_BodiesClosed == \A p \in callers : Done(p) => open[p] = 0

\* ---- C26 -----------------------------------------------------------------
\* NewClient, called by p, has returned and p has made no call since
JustConstructed(p) ==
    /\ qbClient.state \in {"ok", "failed"}
    /\ ncalls[p] = 1
    /\ op[p].api \in {"none", "NewClient"}
BothGiven == username # <<>> /\ password # <<>>
\* NewClient with an empty username or password: a Client, nothing sent
NothingSent(p) ==
    /\ op[p] = NoOp /\ logins[p] = 0 /\ log[p] = <<>>
    /\ qbClient.state = "ok"
\* NewClient returns nil and the wrapped error exactly when its AuthLogin
\* returned an error
FailsWithLogin(p) ==
    /\ op[p].api = "NewClient"
    /\ qbClient.state = "failed" <=> result[p].err # NoErr
    /\ result[p].err # NoErr => HeadIs(answer[p].err, "AuthLogin error")
    /\ result[p].err = NoErr =>
          log[p] # <<>> /\ log[p][Len(log[p])].resp.status = StatusOK

\* C26: NewClient sends a login request exactly when username and password
\* are both non-empty, and then returns an error and no Client if the login
\* fails; with an empty username or password it returns a Client and has
\* sent nothing.
C26_LoginIffCredentials ==
    \A p \in callers :
        JustConstructed(p) =>
            IF BothGiven THEN logins[p] >= 1 /\ FailsWithLogin(p)
            ELSE NothingSent(p)

\* C26, amended: with both credentials NewClient calls AuthLogin, which
\* sends a login request unless the base URL does not parse; NewClient
\* returns an error and no Client exactly when AuthLogin returned an error.
C26_LoginWhenCredentials ==
    \A p \in callers :
        JustConstructed(p) =>
            IF BothGiven
            THEN /\ FailsWithLogin(p)
                 /\ IF baseURL.ok THEN logins[p] >= 1
                    ELSE logins[p] = 0 /\ qbClient.state = "failed"
            ELSE NothingSent(p)

C26_Witness ==
    \E p \in callers :
        /\ JustConstructed(p) /\ BothGiven
        /\ qbClient.state = "failed" /\ logins[p] = 1
        /\ log[p][1].resp.status = 500

\* ---- C27 -----------------------------------------------------------------
\* frame i of p is a doRequest to the login endpoint with its request made
LoginRequest(p, i) ==
    /\ stack[p][i].fn = "doRequest"
    /\ stack[p][i].call.endpoint = LoginPath
    /\ stack[p][i].pc \in {"send", "recv"}
\* the form of a login request made with the credentials of the Client
CarriesCredentials(f) ==
    /\ ~f.bodyBuffer.nil
    /\ f.bodyBuffer.bytes =
          <<[name |-> "password", filename |-> <<>>, data |-> password],
            [name |-> "username", filename |-> <<>>, data |-> username]>>
\* the first request of the endpoint call of p was answered 403
FirstForbidden(p) ==
    /\ EndpointCall(p)
    /\ log[p] # <<>>
    /\ log[p][1].resp.status = StatusForbidden

\* C27: every login request, those of a re-authentication included, carries
\* the username and password given to NewClient, empty or not; a call whose
\* first request was answered 403 has attempted a login, and it ends with
\* the retried request sent when the login succeeded and with the error
\* "re-authentication failed" and no retry when it did not.
C27_ReauthWithGivenCredentials ==
    \A p \in callers :
        /\ \A i \in 1..Depth(p) :
              LoginRequest(p, i) => CarriesCredentials(stack[p][i])
        /\ (FirstForbidden(p) /\ Done(p)) =>
              /\ logins[p] >= 1
              /\ \/ reauth[p] = "ok" /\ Len(log[p]) = 2
                 \/ /\ reauth[p] = "failed" /\ Len(log[p]) = 1
                    /\ HeadIs(result[p].err, "re-authentication failed")

\* a Client built without credentials re-authenticates after a 403
C27_Witness ==
    \E p \in callers :
        /\ username = <<>> /\ password = <<>>
        /\ FirstForbidden(p) /\ Depth(p) = 4
        /\ LoginRequest(p, 4) /\ Top(p).pc = "recv"
        /\ CarriesCredentials(Top(p))
        /\ logins[p] = 1

\* ---- C28 -----------------------------------------------------------------
\* the endpoint call of p has returned after its doRequest returned a response
Answered(p) ==
    /\ EndpointCall(p) /\ Done(p)
    /\ log[p] # <<>>
    /\ IsResponse(FinalResponse(p))
    /\ reauth[p] # "failed"

\* C28: an endpoint call whose final response has a status other than 200,
\* 204 and the other 2xx codes included, returns an error and no result; a
\* call that returns without error had 200 as its final status.
C28_Only200 ==
    \A p \in callers :
        Answered(p) =>
            /\ FinalResponse(p).status # StatusOK =>
                  /\ result[p].err # NoErr
                  /\ answer[p].err # NoErr
                  /\ answer[p].value = "nil"
            /\ result[p].err = NoErr => FinalResponse(p).status = StatusOK

C28_Witness ==
    \E p \in callers :
        /\ Answered(p) /\ op[p].fn = "doGet"
        /\ FinalResponse(p).status = 204
        /\ result[p].err.status = 204
        /\ answer[p].value = "nil"

\* ---- C29 -----------------------------------------------------------------
Queried == arg.fn = "TorrentsInfo" /\ out.done
\* strconv.Atoi of a decimal with an optional sign
ParseInt(v) == IF v # <<>> /\ v[1] = "-" THEN -Atoi(Tail(v)) ELSE Atoi(v)
QueryKeys ==
    {"filter", "category", "tag", "sort", "reverse", "limit", "offset", "hashes"}
\* the query has the parameter name exactly when set holds, and then once
SentIff(q, name, set) ==
    Cardinality({i \in 1..Len(q) : q[i].name = name}) = (IF set THEN 1 ELSE 0)

\* C29: the query of TorrentsInfo has a parameter exactly when the field of
\* TorrentsInfoParams is set (a non-empty string, Reverse true, Limit > 0,
\* Offset # 0, at least one hash), with the field's value, the hashes joined
\* by "|" in the order given; without params or with a nil pointer the query
\* is empty.
C29_QueryIffSet ==
    Queried =>
        LET q == out.query
            v == arg.args.v
        IN IF arg.args.n = 0 \/ arg.args.nil THEN q = <<>>
           ELSE /\ \A i \in 1..Len(q) : q[i].name \in QueryKeys
                /\ SentIff(q, "filter", v.Filter # <<>>)
                /\ SentIff(q, "category", v.Category # <<>>)
                /\ SentIff(q, "tag", v.Tag # <<>>)
                /\ SentIff(q, "sort", v.Sort # <<>>)
                /\ SentIff(q, "reverse", v.Reverse)
                /\ SentIff(q, "limit", v.Limit > 0)
                /\ SentIff(q, "offset", v.Offset # 0)
                /\ SentIff(q, "hashes", Len(v.Hashes) > 0)
                /\ FormHas(q, "filter") => FieldValue(q, "filter") = v.Filter
                /\ FormHas(q, "category") => FieldValue(q, "category") = v.Category
                /\ FormHas(q, "tag") => FieldValue(q, "tag") = v.Tag
                /\ FormHas(q, "sort") => FieldValue(q, "sort") = v.Sort
                /\ FormHas(q, "reverse") =>
                      FieldValue(q, "reverse") = <<"t", "r", "u", "e">>
                /\ FormHas(q, "limit") => ParseInt(FieldValue(q, "limit")) = v.Limit
                /\ FormHas(q, "offset") => ParseInt(FieldValue(q, "offset")) = v.Offset
                /\ FormHas(q, "hashes") => Split(FieldValue(q, "hashes"), "|") = v.Hashes

C29_Witness ==
    /\ Queried /\ arg.args.n = 1 /\ ~arg.args.nil
    /\ arg.args.v.Offset = -1 /\ arg.args.v.Limit = 5
    /\ arg.args.v.Hashes = <<<<"h", "2">>, <<"h", "1">>>>
    /\ FormHas(out.query, "hashes")
    /\ FieldValue(out.query, "hashes") = <<"h", "2", "|", "h", "1">>
    /\ FieldValue(out.query, "offset") = <<"-", "1">>

\* ---- C30 -----------------------------------------------------------------
Deletes(p) == op[p].api = "TorrentsDelete"

\* C30: every request of a TorrentsDelete call is a POST to
\* /api/v2/torrents/delete whose form has deleteFiles=true and hashes=<the
\* hash given>, and nothing else; there is no call of the method that sends
\* another value of deleteFiles.
C30_DeletesFiles ==
    \A p \in callers :
        Deletes(p) =>
            \A i \in 1..Len(log[p]) :
                LET req == log[p][i].req IN
                /\ req.method = "POST"
                /\ req.url[Len(req.url)] = "/api/v2/torrents/delete"
                /\ Len(req.body) = 2
                /\ SentIff(req.body, "deleteFiles", TRUE)
                /\ SentIff(req.body, "hashes", TRUE)
                /\ FieldValue(req.body, "deleteFiles") = <<"t", "r", "u", "e">>
                /\ FieldValue(req.body, "hashes") = op[p].infohash

C30_Witness ==
    \E p \in callers :
        /\ Deletes(p) /\ Done(p) /\ answer[p].err = NoErr
        /\ op[p].infohash = <<"h", "1", "|", "h", "2">>
        /\ Len(log[p]) = 2
        /\ FieldValue(log[p][2].req.body, "hashes") = <<"h", "1", "|", "h", "2">>
        /\ FieldValue(log[p][2].req.body, "deleteFiles") = <<"t", "r", "u", "e">>
====
